---- MODULE Spec2Model ----
(***************************************************************************)
(* Model of the ITU-Intern meeting processor.                              *)
(*                                                                         *)
(* Part I  - the sequential processing queue (app/queue_manager.py,        *)
(*           app/models.py, app/routes.py): the Meeting and                *)
(*           ProcessingQueue tables as the committed database state, the   *)
(*           QueueManager singleton, and the single worker thread with its *)
(*           position in _worker_loop / _process_queue_item.               *)
(* Part II - the diarization batching protocol and the segment assembler   *)
(*           (app/pipeline.py).                                            *)
(***************************************************************************)
EXTENDS Integers, Sequences, FiniteSets, TLC

(***************************************************************************)
(* Bounds of the model.                                                    *)
(***************************************************************************)
MaxMeetings == 2
MaxPriority == 1
MaxClock == 1
MaxThreads == 2

Meetings == 1..MaxMeetings
Priorities == 0..MaxPriority
Times == 0..MaxClock
Threads == 1..MaxThreads

\* SQL NULL / Python None for a nullable timestamp column.
NULL == -1

\* no add_to_queue or delete_meeting call returned in the step just taken
NoRet == <<0, "none">>

\* the request thread is not between the query and the insert of add_to_queue
NoReq == [m |-> 0, p |-> 0]

VARIABLES
    meeting,         \* Meeting table (committed rows): id -> row
    queue,           \* ProcessingQueue table (committed rows): id -> row
    worker_thread,   \* QueueManager._worker_thread: "None" | "alive" | "dead"
    worker_running,  \* QueueManager._worker_running
    stop_event,      \* QueueManager._stop_event.is_set()
    pc,              \* position of the worker thread
    cur,             \* id of the queue item held by _process_queue_item (0: none)
    pending,         \* uncommitted Meeting completion held by the worker's session
    now,             \* datetime.utcnow()
    ret,             \* outcome of the handler call made in the step just taken:
                     \* add_to_queue <<entry id, status found or "new">>,
                     \* delete_meeting <<meeting id, what happened>>, else NoRet
    req              \* per request thread: the add_to_queue call that found no
                     \* entry and has not inserted yet, else NoReq

qvars == <<meeting, queue, worker_thread, worker_running, stop_event, pc, cur,
           pending, now, ret, req>>

VARIABLES
    transcript_data,       \* the cue dicts of srt_to_json (speaker filled in place)
    boundaries,            \* result of detect_speaker_boundaries
    i,                     \* fill_speakers_with_gpt_enhanced: start of the next batch
    batch_num,             \* fill_speakers_with_gpt_enhanced: number of the next batch
    all_filled_segments,   \* fill_speakers_with_gpt_enhanced: merged output
    grouped_segments,      \* result of group_consecutive_segments
    dpc,                   \* position of the diarization run
    batchLog               \* history: per batch, its slice and what the providers did

dvars == <<transcript_data, boundaries, i, batch_num, all_filled_segments,
           grouped_segments, dpc, batchLog>>

VARIABLES
    speaker_name,          \* the raw speaker label given to parse_speaker_info
    parsed                 \* what parse_speaker_info returned for it

pvars == <<speaker_name, parsed>>

VARIABLES
    configured,            \* the providers that can be set up for this batch
    provider,              \* the provider being called
    attempt,               \* loop variable of the retry loop
    calls,                 \* the provider calls made for the batch, in order
    slept,                 \* the delays slept between attempts, in order
    cpc,                   \* position in the provider calls of the batch
    filled_data            \* what the provider calls gave for the batch

cvars == <<configured, provider, attempt, calls, slept, cpc, filled_data>>

VARIABLES
    db,                    \* the database: "ok", or the error its statements raise
    session,               \* the worker's db.session: "clean", or the error of its failed flush
    waited                 \* seconds of the last time.sleep of _worker_loop, 0 before any

svars == <<db, session, waited>>

VARIABLES
    last_call              \* history: the last call of start_worker / stop_worker

hvars == <<last_call>>

VARIABLES
    ai_config,             \* which AI services the deployment has configured
    speaker_mentions,      \* extract_speaker_info_with_gpt: parsed answer of pass 1
    speaker_info,          \* run_full_pipeline: the roster handed to diarization
    failed_pass,           \* the passes whose except branch ran
    epc                    \* position of the speaker extraction of the job

evars == <<ai_config, speaker_mentions, speaker_info, failed_pass, epc>>

vars == <<qvars, svars, hvars, evars, dvars, pvars, cvars>>

(***************************************************************************)
(* Rows (app/models.py)                                                    *)
(***************************************************************************)
\* Meeting(title, source_url, status='queued', ...) as created by routes.index
NewMeeting ==
    [status |-> "queued", error_message |-> "",
     processing_started_at |-> NULL, processing_completed_at |-> NULL,
     itu_summary |-> "None", notes_path |-> "None"]

\* ProcessingQueue(meeting_id, priority, status='queued'), column defaults applied
NewQueueItem(m, p, t) ==
    [meeting_id |-> m, priority |-> p, queued_at |-> t,
     started_at |-> NULL, completed_at |-> NULL, status |-> "queued"]

\* Meeting ids are INTEGER PRIMARY KEY rowids: highest existing id plus one.
NewMeetingId ==
    IF DOMAIN meeting = {} THEN 1
    ELSE (CHOOSE m \in DOMAIN meeting : \A o \in DOMAIN meeting : o <= m) + 1

\* ProcessingQueue.query.filter_by(meeting_id=m): the ids of the rows found
ExistingItems(q, m) == {id \in DOMAIN q : q[id].meeting_id = m}

\* variant: the worker also picks up entries that failed
QueuedIdsRetryingFailed(q) ==
    {id \in DOMAIN q : q[id].status \in {"queued", "failed"}}

\* ProcessingQueue.query.filter_by(status='queued')
QueuedIds(q) == {id \in DOMAIN q : q[id].status = "queued"}

\* order_by(priority.desc(), queued_at.asc()): row a sorts strictly before row b
OrderedBefore(a, b) ==
    \/ a.priority > b.priority
    \/ a.priority = b.priority /\ a.queued_at < b.queued_at

\* variant: order_by(queued_at.asc()) only, the priority is ignored
NextItemsOldestFirst(q) ==
    {id \in QueuedIds(q) :
        \A o \in QueuedIds(q) : ~(q[o].queued_at < q[id].queued_at)}

\* .first() of the ordered query: any row no other queued row sorts before
\* (rows equal in both sort keys come back in an order the database picks).
NextItems(q) ==
    {id \in QueuedIds(q) : \A o \in QueuedIds(q) : ~OrderedBefore(q[o], q[id])}

\* ProcessingQueue.position_in_queue of row id: 0 unless queued, else one plus
\* the count of queued rows with a higher priority and an earlier queued_at
position_in_queue(q, id) ==
    IF q[id].status # "queued" THEN 0
    ELSE Cardinality({o \in DOMAIN q :
                         /\ q[o].status = "queued"
                         /\ q[o].priority > q[id].priority
                         /\ q[o].queued_at < q[id].queued_at}) + 1

(***************************************************************************)
(* Request handlers                                                        *)
(***************************************************************************)
\* routes.index: Meeting row inserted and committed (before start_processing)
CreateMeeting ==
    /\ NewMeetingId \in Meetings
    /\ meeting' = [m \in DOMAIN meeting \cup {NewMeetingId} |->
                     IF m \in DOMAIN meeting THEN meeting[m] ELSE NewMeeting]
    /\ ret' = NoRet
    /\ UNCHANGED <<queue, worker_thread, worker_running, stop_event,
                   pc, cur, pending, now>>
    /\ UNCHANGED <<req, svars, hvars, evars, dvars, pvars, cvars>>

\* variant: a meeting whose entry is completed or failed gets a new entry
AddToQueueRequeuesFinished(m, p) ==
    /\ m \in DOMAIN meeting
    /\ IF \E id \in ExistingItems(queue, m) :
             queue[id].status \in {"queued", "processing"}
       THEN \E id \in ExistingItems(queue, m) :
               /\ queue[id].status \in {"queued", "processing"}
               /\ ret' = <<id, queue[id].status>>
               /\ UNCHANGED queue
       ELSE /\ queue' = Append(queue, NewQueueItem(m, p, now))
            /\ ret' = <<Len(queue) + 1, "new">>
    /\ UNCHANGED <<meeting, worker_thread, worker_running, stop_event,
                   pc, cur, pending, now>>
    /\ UNCHANGED <<req, svars, hvars, evars, dvars, pvars, cvars>>

\* variant: the check for an existing entry only looks at queued entries
AddToQueueChecksQueuedOnly(m, p) ==
    /\ m \in DOMAIN meeting
    /\ IF \E id \in ExistingItems(queue, m) : queue[id].status = "queued"
       THEN \E id \in ExistingItems(queue, m) :
               /\ queue[id].status = "queued"
               /\ ret' = <<id, queue[id].status>>
               /\ UNCHANGED queue
       ELSE /\ queue' = Append(queue, NewQueueItem(m, p, now))
            /\ ret' = <<Len(queue) + 1, "new">>
    /\ UNCHANGED <<meeting, worker_thread, worker_running, stop_event,
                   pc, cur, pending, now>>
    /\ UNCHANGED <<req, svars, hvars, evars, dvars, pvars, cvars>>

\* QueueManager.add_to_queue(meeting, priority)
AddToQueue(m, p) ==
    /\ m \in DOMAIN meeting
    /\ IF ExistingItems(queue, m) # {}
       THEN \E id \in ExistingItems(queue, m) :
               /\ ret' = <<id, queue[id].status>>
               /\ UNCHANGED queue
       ELSE /\ queue' = Append(queue, NewQueueItem(m, p, now))
            /\ ret' = <<Len(queue) + 1, "new">>
    /\ UNCHANGED <<meeting, worker_thread, worker_running, stop_event,
                   pc, cur, pending, now>>
    /\ UNCHANGED <<req, svars, hvars, evars, dvars, pvars, cvars>>

\* variant: the Meeting row is deleted although queue entries refer to it
DeleteMeetingWithEntries(m) ==
    /\ m \in DOMAIN meeting
    /\ meeting' = [o \in DOMAIN meeting \ {m} |-> meeting[o]]
    /\ ret' = <<m, "deleted">>
    /\ UNCHANGED <<queue, worker_thread, worker_running, stop_event,
                   pc, cur, pending, now>>
    /\ UNCHANGED <<req, svars, hvars, evars, dvars, pvars, cvars>>

\* routes.delete_meeting: db.session.delete(meeting); commit.  A meeting that
\* has a ProcessingQueue row cannot be deleted: the backref has no delete
\* cascade, the flush tries to set processing_queue.meeting_id (NOT NULL) to
\* NULL, and the handler swallows the error, leaving both tables as they were
\* (the files of the meeting are removed before, outside the tables).
DeleteMeeting(m) ==
    /\ m \in DOMAIN meeting
    /\ IF ExistingItems(queue, m) = {}
       THEN /\ meeting' = [o \in DOMAIN meeting \ {m} |-> meeting[o]]
            /\ ret' = <<m, "deleted">>
       ELSE /\ UNCHANGED meeting
            /\ ret' = <<m, "delete failed">>
    /\ UNCHANGED <<queue, worker_thread, worker_running, stop_event,
                   pc, cur, pending, now>>
    /\ UNCHANGED <<req, svars, hvars, evars, dvars, pvars, cvars>>

\* add_to_queue on a request thread, first half (line 68): the query for an
\* existing entry; a found entry is returned, else the thread goes on to insert
AddCheck(t, m, p) ==
    /\ req[t] = NoReq
    /\ m \in DOMAIN meeting
    /\ IF ExistingItems(queue, m) # {}
       THEN \E id \in ExistingItems(queue, m) :
               /\ ret' = <<id, queue[id].status>>
               /\ UNCHANGED req
       ELSE /\ req' = [req EXCEPT ![t] = [m |-> m, p |-> p]]
            /\ ret' = NoRet
    /\ UNCHANGED <<meeting, queue, worker_thread, worker_running, stop_event,
                   pc, cur, pending, now>>
    /\ UNCHANGED <<svars, hvars, evars, dvars, pvars, cvars>>

\* add_to_queue on a request thread, second half (lines 73-80): the new
\* entry is added and committed
AddInsert(t) ==
    /\ req[t] # NoReq
    /\ queue' = Append(queue, NewQueueItem(req[t].m, req[t].p, now))
    /\ ret' = <<Len(queue) + 1, "new">>
    /\ req' = [req EXCEPT ![t] = NoReq]
    /\ UNCHANGED <<meeting, worker_thread, worker_running, stop_event,
                   pc, cur, pending, now>>
    /\ UNCHANGED <<svars, hvars, evars, dvars, pvars, cvars>>

(***************************************************************************)
(* QueueManager: worker control                                            *)
(***************************************************************************)
\* start_worker: a new thread only when there is none or it is not alive
StartWorker ==
    /\ worker_thread \in {"None", "dead"}
    /\ worker_running' = TRUE
    /\ stop_event' = FALSE
    /\ worker_thread' = "alive"
    /\ pc' = "poll"
    /\ cur' = 0
    /\ pending' = NULL
    /\ ret' = NoRet
    /\ last_call' = "start"
    /\ UNCHANGED <<meeting, queue, now>>
    /\ UNCHANGED <<req, svars, evars, dvars, pvars, cvars>>

\* start_worker while the thread is alive: the condition of line 42 is false,
\* nothing is assigned, the flags stay as stop_worker left them
StartWorkerAlive ==
    /\ worker_thread = "alive"
    /\ last_call # "start"
    /\ last_call' = "start"
    /\ ret' = NoRet
    /\ UNCHANGED <<meeting, queue, worker_thread, worker_running, stop_event,
                   pc, cur, pending, now>>
    /\ UNCHANGED <<req, svars, evars, dvars, pvars, cvars>>

\* variant: stop_worker ends the thread at once, in the middle of a job too
StopWorkerAbandonsJob ==
    /\ worker_running \/ ~stop_event \/ last_call # "stop"
    /\ worker_running' = FALSE
    /\ stop_event' = TRUE
    /\ worker_thread' = IF worker_thread = "alive" THEN "dead" ELSE worker_thread
    /\ ret' = NoRet
    /\ last_call' = "stop"
    /\ UNCHANGED <<meeting, queue, pc, cur, pending, now>>
    /\ UNCHANGED <<req, svars, evars, dvars, pvars, cvars>>

\* stop_worker: flags set; join(timeout=5) may return while the thread runs on
StopWorker ==
    /\ worker_running \/ ~stop_event \/ last_call # "stop"
    /\ worker_running' = FALSE
    /\ stop_event' = TRUE
    /\ ret' = NoRet
    /\ last_call' = "stop"
    /\ UNCHANGED <<meeting, queue, worker_thread, pc, cur, pending, now>>
    /\ UNCHANGED <<req, svars, evars, dvars, pvars, cvars>>

\* the condition of `while self._worker_running and not self._stop_event.is_set()`
LoopCondition == worker_running /\ ~stop_event

\* _worker_loop: loop condition false at the top of the loop, the thread ends
WorkerExit ==
    /\ worker_thread = "alive"
    /\ pc = "poll"
    /\ ~LoopCondition
    /\ worker_thread' = "dead"
    /\ ret' = NoRet
    /\ UNCHANGED <<meeting, queue, worker_running, stop_event,
                   pc, cur, pending, now>>
    /\ UNCHANGED <<req, svars, hvars, evars, dvars, pvars, cvars>>

(***************************************************************************)
(* QueueManager._process_queue_item                                        *)
(***************************************************************************)
\* variant: the status is committed without the start timestamp
MarkProcessingWithoutStart(q, id, t) ==
    [q EXCEPT ![id].status = "processing"]

\* lines 177-178: queue_item.status = 'processing'; started_at = utcnow()
MarkProcessing(q, id, t) ==
    [q EXCEPT ![id].status = "processing", ![id].started_at = t]

\* lines 250-251: queue_item.status = 'completed'; completed_at = utcnow()
MarkCompleted(q, id, t) ==
    [q EXCEPT ![id].status = "completed", ![id].completed_at = t]

\* lines 270-271: queue_item.status = 'failed'; completed_at = utcnow()
MarkFailed(q, id, t) ==
    [q EXCEPT ![id].status = "failed", ![id].completed_at = t]

\* lines 200-201 once flushed: meeting.status = 'completed', completion time t
MeetingCompleted(mt, m, t) ==
    [mt EXCEPT ![m].status = "completed", ![m].processing_completed_at = t]

\* the flush of the worker session's pending Meeting completion, if any
FlushPending(mt, m) ==
    IF pending = NULL THEN mt ELSE MeetingCompleted(mt, m, pending)

\* _worker_loop finds next_item and _process_queue_item starts it: the status
\* and the start timestamps of the entry and of its Meeting, one commit (185)
WorkerDequeue ==
    /\ worker_thread = "alive"
    /\ pc = "poll"
    /\ LoopCondition
    /\ \E id \in NextItems(queue) :
          /\ queue' = MarkProcessing(queue, id, now)
          /\ meeting' = [meeting EXCEPT
                           ![queue[id].meeting_id].status = "processing",
                           ![queue[id].meeting_id].processing_started_at = now]
          /\ cur' = id
    /\ pc' = "pipeline"
    /\ ret' = NoRet
    /\ UNCHANGED <<worker_thread, worker_running, stop_event, pending, now>>
    /\ UNCHANGED <<req, svars, hvars, evars, dvars, pvars, cvars>>

\* run_full_pipeline returned: lines 196-213 change the Meeting in the session
PipelineReturns ==
    /\ worker_thread = "alive"
    /\ pc = "pipeline"
    /\ pending' = now
    /\ pc' = "summary"
    /\ ret' = NoRet
    /\ UNCHANGED <<meeting, queue, worker_thread,
                   worker_running, stop_event, cur, now>>
    /\ UNCHANGED <<req, svars, hvars, evars, dvars, pvars, cvars>>

\* variant: a summary that cannot be generated fails the job
SummaryFailureFailsJob(saved) ==
    /\ worker_thread = "alive"
    /\ pc = "summary"
    /\ IF saved
       THEN /\ meeting' = [FlushPending(meeting, queue[cur].meeting_id) EXCEPT
                             ![queue[cur].meeting_id].itu_summary = "summary"]
            /\ pending' = NULL
            /\ pc' = "notes"
            /\ UNCHANGED <<queue, cur>>
       ELSE /\ meeting' = [meeting EXCEPT
                             ![queue[cur].meeting_id].status = "error",
                             ![queue[cur].meeting_id].error_message = "traceback",
                             ![queue[cur].meeting_id].processing_completed_at = now]
            /\ queue' = MarkFailed(queue, cur, now)
            /\ pending' = NULL
            /\ pc' = "poll"
            /\ cur' = 0
    /\ ret' = NoRet
    /\ UNCHANGED <<worker_thread, worker_running, stop_event, now>>
    /\ UNCHANGED <<req, svars, hvars, evars, dvars, pvars, cvars>>

\* process_meeting_summary (215-230): when the summary is saved,
\* save_summary_to_database sets itu_summary and commits the worker's
\* session; a failure or an exception is logged and nothing is committed.
Summary(saved) ==
    /\ worker_thread = "alive"
    /\ pc = "summary"
    /\ IF saved
       THEN /\ meeting' = [FlushPending(meeting, queue[cur].meeting_id) EXCEPT
                             ![queue[cur].meeting_id].itu_summary = "summary"]
            /\ pending' = NULL
       ELSE UNCHANGED <<meeting, pending>>
    /\ pc' = "notes"
    /\ ret' = NoRet
    /\ UNCHANGED <<queue, worker_thread, worker_running,
                   stop_event, cur, now>>
    /\ UNCHANGED <<req, svars, hvars, evars, dvars, pvars, cvars>>

\* process_meeting_notes (232-247): save_notes_path_to_database commits likewise
Notes(saved) ==
    /\ worker_thread = "alive"
    /\ pc = "notes"
    /\ IF saved
       THEN /\ meeting' = [FlushPending(meeting, queue[cur].meeting_id) EXCEPT
                             ![queue[cur].meeting_id].notes_path = "notes.docx"]
            /\ pending' = NULL
       ELSE UNCHANGED <<meeting, pending>>
    /\ pc' = "commit"
    /\ ret' = NoRet
    /\ UNCHANGED <<queue, worker_thread, worker_running,
                   stop_event, cur, now>>
    /\ UNCHANGED <<req, svars, hvars, evars, dvars, pvars, cvars>>

\* lines 249-253: the entry is completed and the session committed
FinalCommit ==
    /\ worker_thread = "alive"
    /\ pc = "commit"
    /\ queue' = MarkCompleted(queue, cur, now)
    /\ meeting' = FlushPending(meeting, queue[cur].meeting_id)
    /\ pending' = NULL
    /\ pc' = "poll"
    /\ cur' = 0
    /\ ret' = NoRet
    /\ UNCHANGED <<worker_thread, worker_running, stop_event, now>>
    /\ UNCHANGED <<req, svars, hvars, evars, dvars, pvars, cvars>>

\* variant: after recording the failure the exception ends the worker thread
PipelineRaisesEndsWorker ==
    /\ worker_thread = "alive"
    /\ pc = "pipeline"
    /\ meeting' = [meeting EXCEPT
                     ![queue[cur].meeting_id].status = "error",
                     ![queue[cur].meeting_id].error_message = "traceback",
                     ![queue[cur].meeting_id].processing_completed_at = now]
    /\ queue' = MarkFailed(queue, cur, now)
    /\ worker_thread' = "dead"
    /\ pc' = "poll"
    /\ cur' = 0
    /\ ret' = NoRet
    /\ UNCHANGED <<worker_running, stop_event, pending, now>>
    /\ UNCHANGED <<req, svars, hvars, evars, dvars, pvars, cvars>>

\* the except branch (255-273): run_full_pipeline raised
PipelineRaises ==
    /\ worker_thread = "alive"
    /\ pc = "pipeline"
    /\ meeting' = [meeting EXCEPT
                     ![queue[cur].meeting_id].status = "error",
                     ![queue[cur].meeting_id].error_message = "traceback",
                     ![queue[cur].meeting_id].processing_completed_at = now]
    /\ queue' = MarkFailed(queue, cur, now)
    /\ pc' = "poll"
    /\ cur' = 0
    /\ ret' = NoRet
    /\ UNCHANGED <<worker_thread, worker_running, stop_event, pending, now>>
    /\ UNCHANGED <<req, svars, hvars, evars, dvars, pvars, cvars>>

(***************************************************************************)
(* Environment                                                             *)
(***************************************************************************)
\* The process ends and a new one is started: the daemon worker thread and
\* everything in memory are gone, the committed tables stay; the module-level
\* QueueManager() of the new process is freshly constructed.
Restart ==
    /\ worker_thread # "None"
    /\ worker_thread' = "None"
    /\ worker_running' = FALSE
    /\ stop_event' = FALSE
    /\ pc' = "poll"
    /\ cur' = 0
    /\ pending' = NULL
    /\ ret' = NoRet
    /\ last_call' = "none"
    /\ UNCHANGED <<meeting, queue, now>>
    /\ UNCHANGED <<req, svars, evars, dvars, pvars, cvars>>

\* time passes
Tick ==
    /\ now < MaxClock
    /\ now' = now + 1
    /\ ret' = NoRet
    /\ UNCHANGED <<meeting, queue, worker_thread, worker_running,
                   stop_event, pc, cur, pending>>
    /\ UNCHANGED <<req, svars, hvars, evars, dvars, pvars, cvars>>

(***************************************************************************)
(* Specification of the queue                                              *)
(***************************************************************************)
\* no diarization run is modelled alongside the queue
DiarIdle ==
    /\ transcript_data = <<>>
    /\ boundaries = {}
    /\ i = 0
    /\ batch_num = 1
    /\ all_filled_segments = <<>>
    /\ grouped_segments = <<>>
    /\ dpc = "idle"
    /\ batchLog = <<>>

\* QueueManager.__init__ on an empty database
QueueInit ==
    /\ meeting = <<>>
    /\ queue = <<>>
    /\ worker_thread = "None"
    /\ worker_running = FALSE
    /\ stop_event = FALSE
    /\ pc = "poll"
    /\ cur = 0
    /\ pending = NULL
    /\ now = 0
    /\ ret = NoRet
    /\ req = [t \in Threads |-> NoReq]
    /\ db = "ok"
    /\ session = "clean"
    /\ waited = 0
    /\ last_call = "none"

\* no speaker label is being resolved
ParseIdle ==
    /\ speaker_name = <<>>
    /\ parsed = <<>>

\* no batch is being sent to a provider
ChainIdle ==
    /\ configured = {}
    /\ provider = "none"
    /\ attempt = 0
    /\ calls = <<>>
    /\ slept = <<>>
    /\ cpc = "idle"
    /\ filled_data = "None"

\* no speaker extraction is modelled alongside
ExtractIdle ==
    /\ ai_config = [azure |-> FALSE, client |-> "none", gemini |-> FALSE]
    /\ speaker_mentions = [kind |-> "None", speaker_mentions |-> <<>>]
    /\ speaker_info = [kind |-> "None", speakers |-> <<>>]
    /\ failed_pass = {}
    /\ epc = "idle"

Init ==
    /\ QueueInit
    /\ ExtractIdle
    /\ DiarIdle
    /\ ParseIdle
    /\ ChainIdle

Handlers ==
    \/ CreateMeeting
    \/ \E m \in Meetings, p \in Priorities : AddToQueue(m, p)
    \/ \E m \in Meetings : DeleteMeeting(m)

Control ==
    \/ StartWorker
    \/ StartWorkerAlive
    \/ StopWorker

JobStep ==
    \/ PipelineReturns
    \/ \E saved \in BOOLEAN : Summary(saved)
    \/ \E saved \in BOOLEAN : Notes(saved)
    \/ FinalCommit
    \/ PipelineRaises

Worker ==
    \/ WorkerDequeue
    \/ JobStep
    \/ WorkerExit

Next ==
    \/ Handlers
    \/ Control
    \/ Worker
    \/ Restart
    \/ Tick

Spec == Init /\ [][Next]_vars

\* The queue without process restarts, with the scheduling the code provides:
\* create_app starts the worker of a new process, the worker thread keeps
\* taking steps, and every pipeline call returns or raises.
LiveNext ==
    \/ Handlers
    \/ Control
    \/ Worker
    \/ Tick

LiveSpec ==
    /\ Init
    /\ [][LiveNext]_vars
    /\ WF_vars(StartWorker /\ worker_thread = "None")
    /\ WF_vars(WorkerDequeue)
    /\ WF_vars(JobStep)
    /\ WF_vars(WorkerExit)

\* start_processing(meeting, priority=0) as routes.index calls it
DefaultPriority == 0

\* add_to_queue calls running on several request threads of the web server
\* at once, beside the worker thread; stop_worker is not called
RaceNext ==
    \/ CreateMeeting
    \/ \E t \in Threads, m \in Meetings : AddCheck(t, m, DefaultPriority)
    \/ \E t \in Threads : AddInsert(t)
    \/ StartWorker
    \/ WorkerDequeue
    \/ JobStep
    \/ Tick

RaceSpec == Init /\ [][RaceNext]_vars

(***************************************************************************)
(* The worker while the database is unavailable                            *)
(***************************************************************************)
\* what str(e).lower() of a failing statement contains: a missing table or
\* column during a migration, or any other database error
DbErrors == {"no such table", "database is locked"}

\* sleeps of _worker_loop: queue empty, missing table/column, any other error
EmptyQueueWait == 5
MigrationWait == 30
ErrorWait == 10

\* lines 155-167: the wait chosen from the text of the exception
WaitFor(error_msg) ==
    IF error_msg = "no such table" THEN MigrationWait ELSE ErrorWait

\* the database starts to fail (a migration drops a table, a lock is held)
DbFails(e) ==
    /\ db = "ok"
    /\ db' = e
    /\ UNCHANGED <<session, waited>>
    /\ UNCHANGED <<qvars, hvars, evars, dvars, pvars, cvars>>

\* the database answers again
DbRecovers ==
    /\ db # "ok"
    /\ db' = "ok"
    /\ UNCHANGED <<session, waited>>
    /\ UNCHANGED <<qvars, hvars, evars, dvars, pvars, cvars>>

\* variant: an exception of the polling query ends the worker thread
PollFailsEndsWorker ==
    /\ worker_thread = "alive"
    /\ pc = "poll"
    /\ LoopCondition
    /\ db # "ok"
    /\ worker_thread' = "dead"
    /\ UNCHANGED <<db, session, waited>>
    /\ UNCHANGED <<meeting, queue, worker_running, stop_event, pc, cur,
                   pending, now, ret, req>>
    /\ UNCHANGED <<hvars, evars, dvars, pvars, cvars>>

\* lines 140-167: the query of line 143 raises, the except branch sleeps and
\* the loop goes round
PollFails ==
    /\ worker_thread = "alive"
    /\ pc = "poll"
    /\ LoopCondition
    /\ db # "ok"
    /\ waited' = WaitFor(db)
    /\ UNCHANGED <<db, session>>
    /\ UNCHANGED <<qvars, hvars, evars, dvars, pvars, cvars>>

\* lines 150-153: no queued entry, time.sleep(5)
PollEmpty ==
    /\ worker_thread = "alive"
    /\ pc = "poll"
    /\ LoopCondition
    /\ db = "ok"
    /\ NextItems(queue) = {}
    /\ waited' = EmptyQueueWait
    /\ UNCHANGED <<db, session>>
    /\ UNCHANGED <<qvars, hvars, evars, dvars, pvars, cvars>>

\* save_summary_to_database / the notes generator reach the database while it
\* fails: Meeting.query.get flushes the changed Meeting, the flush raises, the
\* session rolls its changes back and refuses further statements; the
\* generator returns False (meeting_summarizer.py 221-223)
StoreFails ==
    /\ worker_thread = "alive"
    /\ pc \in {"summary", "notes"}
    /\ db # "ok"
    /\ session = "clean"
    /\ session' = db
    /\ pending' = NULL
    /\ pc' = IF pc = "summary" THEN "notes" ELSE "commit"
    /\ UNCHANGED <<db, waited>>
    /\ UNCHANGED <<meeting, queue, worker_thread, worker_running, stop_event,
                   cur, now, ret, req>>
    /\ UNCHANGED <<hvars, evars, dvars, pvars, cvars>>

\* db.session.commit() of line 253, or the one of line 273 after the pipeline
\* raised, raises: the except branch (255-273) raises in turn, the exception
\* leaves _process_queue_item, the with block drops the session and the
\* except branch of _worker_loop sleeps; the entry stays as committed
JobCommitFails ==
    /\ worker_thread = "alive"
    /\ pc \in {"pipeline", "commit"}
    /\ db # "ok" \/ session # "clean"
    /\ waited' = WaitFor(IF session # "clean" THEN session ELSE db)
    /\ session' = "clean"
    /\ pending' = NULL
    /\ cur' = 0
    /\ pc' = "poll"
    /\ UNCHANGED db
    /\ UNCHANGED <<meeting, queue, worker_thread, worker_running, stop_event,
                   now, ret, req>>
    /\ UNCHANGED <<hvars, evars, dvars, pvars, cvars>>

\* a statement of the worker that needs the database succeeds
Stored ==
    /\ db = "ok"
    /\ session = "clean"
    /\ \/ WorkerDequeue
       \/ Summary(TRUE)
       \/ Notes(TRUE)
       \/ FinalCommit
       \/ PipelineRaises

\* steps of the job that do not reach the database: the pipeline returns, the
\* language model gives no summary or no notes
Unstored ==
    \/ PipelineReturns
    \/ Summary(FALSE)
    \/ Notes(FALSE)

OutageWorker ==
    \/ Stored
    \/ Unstored
    \/ PollFails
    \/ PollEmpty
    \/ StoreFails
    \/ JobCommitFails

\* request handlers answer only while the database does; stop_worker is not
\* called
OutageNext ==
    \/ db = "ok" /\ CreateMeeting
    \/ db = "ok" /\ \E m \in Meetings, p \in Priorities : AddToQueue(m, p)
    \/ StartWorker
    \/ \E e \in DbErrors : DbFails(e)
    \/ DbRecovers
    \/ OutageWorker

\* the worker thread keeps taking steps (it only sleeps for bounded times)
OutageSpec ==
    /\ Init
    /\ [][OutageNext]_vars
    /\ WF_vars(OutageWorker)

(***************************************************************************)
(* Properties of the queue                                                 *)
(***************************************************************************)
EntryIds == 1..MaxMeetings

ProcessingIds(q) == {id \in DOMAIN q : q[id].status = "processing"}

Terminal(s) == s \in {"completed", "failed"}

\* the status of entry id, "absent" while there is no such entry
StatusOf(id) == IF id \in DOMAIN queue THEN queue[id].status ELSE "absent"

\* C1: in every reachable state at most one ProcessingQueue entry has status
\* 'processing' (process restarts that keep the persisted entries included).
SingleProcessing == Cardinality(ProcessingIds(queue)) <= 1

\* C2 (as stated): for all entries A and B, if A sorts before B (higher
\* priority, or equal priority and earlier enqueue time) and B has been
\* dequeued, then A has been dequeued too, and no later than B.
DequeuedInPriorityOrder ==
    \A a \in DOMAIN queue, b \in DOMAIN queue :
        (OrderedBefore(queue[a], queue[b]) /\ queue[b].started_at # NULL)
            => /\ queue[a].started_at # NULL
               /\ queue[a].started_at <= queue[b].started_at

\* C2 (amended): whenever the worker dequeues an entry B (queued ->
\* processing), no entry A that is queued at that moment sorts before B.
DequeuesFirstOfQueued ==
    [][\A b \in DOMAIN queue :
          (queue[b].status = "queued" /\ queue'[b].status = "processing")
              => \A a \in QueuedIds(queue) : ~OrderedBefore(queue[a], queue[b])]_vars

\* a later, higher-priority entry was dequeued while an earlier one still waits
WitnessPriorityOvertakes ==
    \E a \in DOMAIN queue, b \in DOMAIN queue :
        /\ a > b
        /\ queue[a].priority > queue[b].priority
        /\ queue[a].status = "processing"
        /\ queue[b].status = "queued"

\* C3: add_to_queue on a meeting that already has a queued or processing
\* entry returns that entry and changes neither table (no duplicate entry).
IdempotentEnqueue ==
    [][\A m \in Meetings, p \in Priorities :
          (/\ AddToQueue(m, p)
           /\ \E id \in ExistingItems(queue, m) :
                 queue[id].status \in {"queued", "processing"})
              => /\ queue' = queue
                 /\ meeting' = meeting
                 /\ ret'[1] \in ExistingItems(queue, m)]_vars

\* add_to_queue has just returned the entry of a meeting that is being processed
WitnessEnqueueWhileProcessing ==
    /\ ret[2] = "processing"
    /\ ret[1] \in ProcessingIds(queue)

\* C4: an entry's status only changes queued -> processing and processing ->
\* completed | failed; entries are never removed, so a completed or failed
\* entry keeps its status.
StatusStateMachine ==
    [][/\ DOMAIN queue \subseteq DOMAIN queue'
       /\ \A id \in DOMAIN queue :
             queue'[id].status # queue[id].status
                 => \/ /\ queue[id].status = "queued"
                       /\ queue'[id].status = "processing"
                    \/ /\ queue[id].status = "processing"
                       /\ Terminal(queue'[id].status)]_vars

\* one entry ended completed and another ended failed
WitnessBothTerminals ==
    \E a \in DOMAIN queue, b \in DOMAIN queue :
        queue[a].status = "completed" /\ queue[b].status = "failed"

\* C5: after an entry has failed, every entry that is queued is still dequeued
\* for as long as nobody asks the worker to stop: the failure itself never
\* ends the worker loop.
FailureDoesNotStopWorker ==
    \A f \in EntryIds, id \in EntryIds :
        (StatusOf(f) = "failed" /\ StatusOf(id) = "queued")
            ~> (StatusOf(id) # "queued" \/ ~LoopCondition)

\* an entry was dequeued after another entry had failed
WitnessServedAfterFailure ==
    \E f \in DOMAIN queue, id \in DOMAIN queue :
        /\ queue[f].status = "failed"
        /\ queue[id].status = "processing"
        /\ queue[id].started_at >= queue[f].completed_at
        /\ id > f

AheadOf(q, id) ==
    {o \in QueuedIds(q) \ {id} : OrderedBefore(q[o], q[id])}

\* C11: position_in_queue of a queued entry is one plus the number of other
\* queued entries with a strictly higher priority, or the same priority and an
\* earlier enqueue time; of an entry that is not queued it is 0.
PositionIsDequeueRank ==
    \A id \in DOMAIN queue :
        position_in_queue(queue, id) =
            IF queue[id].status = "queued"
            THEN 1 + Cardinality(AheadOf(queue, id))
            ELSE 0

\* the Meeting row of queue entry id
MeetingOf(id) == meeting[queue[id].meeting_id]

\* the status of the Meeting of entry id, "absent" while there is no such entry
MeetingStatusOf(id) ==
    IF id \in DOMAIN queue THEN MeetingOf(id).status ELSE "absent"

\* C13: in every committed state an entry with status 'processing' has its
\* started_at set and its Meeting has processing_started_at set.
ProcessingHasStart ==
    \A id \in DOMAIN queue :
        queue[id].status = "processing"
            => /\ queue[id].started_at # NULL
               /\ queue[id].meeting_id \in DOMAIN meeting
               /\ MeetingOf(id).processing_started_at # NULL

\* the worker has just dequeued an entry at a time after it was enqueued
WitnessDequeuedWithStart ==
    /\ pc = "pipeline"
    /\ cur \in ProcessingIds(queue)
    /\ queue[cur].started_at = now
    /\ queue[cur].queued_at < now
    /\ MeetingOf(cur).processing_started_at = now

\* C14: in every committed state a completed or failed entry has completed_at
\* set and the Meeting of a failed entry has status 'error' and a non-empty
\* error_message; the Meeting of a failed entry keeps both from then on.
\* (Holds while add_to_queue calls do not overlap; two entries of one meeting
\* break it.)
TerminalHasCompletion ==
    /\ [](\A id \in DOMAIN queue :
            /\ Terminal(queue[id].status) => queue[id].completed_at # NULL
            /\ queue[id].status = "failed"
                  => /\ queue[id].meeting_id \in DOMAIN meeting
                     /\ MeetingOf(id).status = "error"
                     /\ MeetingOf(id).error_message # "")
    /\ [][\A id \in DOMAIN queue :
             queue[id].status = "failed"
                 => /\ queue[id].meeting_id \in DOMAIN meeting'
                    /\ meeting'[queue[id].meeting_id].status = "error"
                    /\ meeting'[queue[id].meeting_id].error_message =
                          MeetingOf(id).error_message]_vars

PastPipeline(id) ==
    /\ worker_thread = "alive"
    /\ cur = id
    /\ pc \in {"summary", "notes", "commit"}

SeenError == IF session # "clean" THEN session ELSE db

\* C24: an exception of a query or commit inside the worker loop never ends
\* the worker thread: the loop sleeps 30 s for a missing table or column and
\* 10 s for any other error and polls again, and once the database answers
\* for good every queued entry is dequeued.
WorkerSurvivesOutage ==
    /\ [][/\ worker_thread = "alive" => worker_thread' = "alive"
          /\ waited' # waited =>
                /\ pc' = "poll"
                /\ waited' = IF SeenError = "ok" THEN EmptyQueueWait
                             ELSE IF SeenError = "no such table" THEN MigrationWait
                             ELSE ErrorWait]_vars
    /\ <>[](db = "ok") =>
          \A id \in EntryIds :
              (worker_thread = "alive" /\ StatusOf(id) = "queued")
                  ~> (StatusOf(id) # "queued")

\* an entry dequeued when the last sleep of the loop was the 30 s of a
\* missing table
WitnessDequeuedAfterOutage ==
    /\ waited = MigrationWait
    /\ db = "ok"
    /\ pc = "pipeline"
    /\ cur # 0
    /\ StatusOf(cur) = "processing"

\* C26: every enqueued entry is eventually dequeued and becomes completed or
\* failed when the worker keeps running, each pipeline call returns or
\* raises and the database answers from some point on; no entry that was
\* dequeued is ever queued, and so selected, again.
EnqueuedJobsFinish ==
    /\ [][\A id \in EntryIds :
             StatusOf(id) \in {"processing", "completed", "failed"}
                 => StatusOf(id)' # "queued"]_vars
    /\ <>[](worker_thread = "alive" /\ LoopCondition /\ db = "ok") =>
          \A id \in EntryIds :
              (StatusOf(id) = "queued") ~> Terminal(StatusOf(id))

\* C27: whenever the last of the start_worker and stop_worker calls made so
\* far is start_worker, one worker loop is running (the thread is alive and
\* its loop condition holds), also when the stop came during a job and the
\* start before the job ended; and while that stays so, every queued entry is
\* dequeued.
StartedWorkerServes ==
    /\ [](last_call = "start" => worker_thread = "alive" /\ LoopCondition)
    /\ <>[](last_call = "start") =>
          \A id \in EntryIds :
              (StatusOf(id) = "queued") ~> (StatusOf(id) # "queued")

\* the Meeting status that goes with a ProcessingQueue status
MeetingStatusFor(s) == IF s = "failed" THEN "error" ELSE s

\* C28: in every committed state the status of a Meeting that has a queue
\* entry is the one that goes with the status of the entry (queued, processing,
\* completed, error for failed): no reader sees a Meeting 'completed' whose
\* entry is still 'processing'.
StatusesCorrespond ==
    \A id \in DOMAIN queue :
        MeetingStatusOf(id) = MeetingStatusFor(queue[id].status)

\* C30: with add_to_queue calls and worker steps taken one at a time a
\* meeting never has more than one queue entry: entries are never removed, a
\* completed or failed entry keeps its status, and add_to_queue on a meeting
\* whose entry is completed or failed returns that entry and adds none, so no
\* finished or failed job is queued or run again.
OneEntryForWholeHistory ==
    /\ [](\A m \in Meetings : Cardinality(ExistingItems(queue, m)) <= 1)
    /\ [][/\ \A id \in DOMAIN queue :
                /\ id \in DOMAIN queue'
                /\ queue'[id].meeting_id = queue[id].meeting_id
                /\ Terminal(queue[id].status) => queue'[id].status = queue[id].status
          /\ \A m \in Meetings, p \in Priorities :
                (/\ AddToQueue(m, p)
                 /\ \E id \in ExistingItems(queue, m) : Terminal(queue[id].status))
                    => /\ queue' = queue
                       /\ ret'[1] \in ExistingItems(queue, m)
                       /\ Terminal(ret'[2])]_vars

\* add_to_queue has just returned the failed entry of a meeting, the only
\* entry the meeting ever had
WitnessEnqueueAfterFailure ==
    /\ ret[2] = "failed"
    /\ ret[1] \in DOMAIN queue
    /\ queue[ret[1]].status = "failed"
    /\ Cardinality(ExistingItems(queue, queue[ret[1]].meeting_id)) = 1

\* C12: add_to_queue calls for the same meeting that run at the same time on
\* different request threads leave exactly one queue entry for the meeting.
OneEntryPerMeeting ==
    \A m \in Meetings : Cardinality(ExistingItems(queue, m)) <= 1

(***************************************************************************)
(* Part II: speaker diarization in batches (app/pipeline.py) and the       *)
(* grouping of labelled cues into speaker turns.                           *)
(***************************************************************************)

MAX_SEGMENTS_PER_GPT_BATCH == 200
BATCH_OVERLAP_SIZE == 5
BoundaryWindow == 10
PauseSeconds == 3
ContextWindow == 30

\* largest transcript of the diarization runs: two full batches and a third
MaxCues == 396
\* longest labelled sequence handed to group_consecutive_segments on its own
MaxGroupLen == 5

CueCounts ==
    {0, 1, BATCH_OVERLAP_SIZE, MAX_SEGMENTS_PER_GPT_BATCH,
     MAX_SEGMENTS_PER_GPT_BATCH + 1, MaxCues - 1, MaxCues}

\* speaker values: names, the empty string of srt_to_json, JSON null, and a
\* dict without the 'speaker' key
Labels == {"A", "B"}
NoneSpeaker == "<None>"
Missing == "<missing>"

\* where the transcript has speaker-change signs: at positions
\* first, first + period, ... ; a pause before the cue or a phrase in its text
ChangePatterns ==
    { [first |-> 0,   period |-> 0, pause |-> TRUE],
      [first |-> 1,   period |-> 1, pause |-> TRUE],
      [first |-> 195, period |-> 0, pause |-> FALSE],
      [first |-> 191, period |-> 8, pause |-> TRUE],
      [first |-> 190, period |-> 0, pause |-> TRUE] }

ChangeAt(pat, pos) ==
    /\ pat.first > 0
    /\ pos >= pat.first
    /\ IF pat.period = 0 THEN pos = pat.first
       ELSE (pos - pat.first) % pat.period = 0

\* srt_to_json: one dict per cue, speaker empty; cue k (position k - 1) lasts
\* two seconds and follows the previous cue directly or after a long pause
Cue(k, pat) ==
    [index   |-> k,
     start   |-> 6 * (k - 1) + (IF ChangeAt(pat, k - 1) /\ pat.pause THEN 4 ELSE 0),
     end     |-> 6 * k,
     speaker |-> "",
     text    |-> [cue |-> k, indicator |-> ChangeAt(pat, k - 1) /\ ~pat.pause]]

srt_to_json(n, pat) == [k \in 1..n |-> Cue(k, pat)]

\* detect_speaker_boundaries: positions (from 0) after a pause of more than
\* three seconds or whose text holds a change indicator, and always 0
detect_speaker_boundaries(segments) ==
    {0} \cup { pos \in 1..(Len(segments) - 1) :
                 \/ segments[pos + 1].start - segments[pos].end > PauseSeconds
                 \/ segments[pos + 1].text.indicator }

Min(S) == CHOOSE x \in S : \A y \in S : x <= y

\* the end of the batch starting at position i: the first boundary within
\* the window before the default end, when more cues follow
BatchEnd(start, n, bnds) ==
    LET batch_end == IF start + MAX_SEGMENTS_PER_GPT_BATCH < n
                     THEN start + MAX_SEGMENTS_PER_GPT_BATCH ELSE n
        near == { b \in bnds : /\ start < b /\ b <= batch_end
                               /\ batch_end < n
                               /\ batch_end - b < BoundaryWindow }
    IN  IF near = {} THEN batch_end ELSE Min(near)

\* An element of a list of segments is the very dict at a position of
\* transcript_data (ref > 0) or a dict of its own, parsed from a response.
NoSeg == [index |-> 0, start |-> 0, end |-> 0, speaker |-> "",
          text |-> [cue |-> 0, indicator |-> FALSE]]

SameDict(k) == [ref |-> k, seg |-> NoSeg]
OwnDict(d) == [ref |-> 0, seg |-> d]

\* the dict an element stands for, given the current transcript_data
Seg(data, e) == IF e.ref > 0 THEN data[e.ref] ELSE e.seg

Segs(data, list) == [k \in 1..Len(list) |-> Seg(data, list[k])]

\* dict.get('speaker', default)
GetSpeaker(d, default) == IF d.speaker = Missing THEN default ELSE d.speaker

\* transcript_data[i:batch_end], the dicts themselves
Slice(start, batch_end) == [j \in 1..(batch_end - start) |-> SameDict(start + j)]

\* list[BATCH_OVERLAP_SIZE:]
SkipOverlap(list) ==
    IF Len(list) <= BATCH_OVERLAP_SIZE THEN <<>>
    ELSE [j \in 1..(Len(list) - BATCH_OVERLAP_SIZE) |-> list[j + BATCH_OVERLAP_SIZE]]

\* what the providers answer for one batch
\*   gpt:    "compressed"  [[index, speaker], ...] pairs
\*           "full"        a list of dicts of the batch's length
\*           "unparsed"    nothing decompress_batch_response can use
\*           "none"        every attempt raised (or no client is configured)
\*   gemini: "list"        a JSON list of the batch's length
\*           "failed"      no response, or one that does not parse or differs
\*                         in length
\*   cover:  which indices a compressed answer names
\*   idx:    the index values a list of dicts carries
Outcomes ==
    [gpt : {"compressed"}, gemini : {"n/a"}, label : Labels,
     cover : {"all", "even"}, idx : {"same"}]
    \cup
    [gpt : {"full"}, gemini : {"n/a"}, label : {"A"},
     cover : {"all"}, idx : {"same", "shifted"}]
    \cup
    [gpt : {"unparsed"}, gemini : {"n/a"}, label : {""},
     cover : {"all"}, idx : {"same"}]
    \cup
    [gpt : {"none"}, gemini : {"list"}, label : {"B"},
     cover : {"all"}, idx : {"same", "shifted"}]
    \cup
    [gpt : {"none"}, gemini : {"list"}, label : {NoneSpeaker},
     cover : {"all"}, idx : {"same"}]
    \cup
    [gpt : {"none"}, gemini : {"failed"}, label : {""},
     cover : {"all"}, idx : {"same"}]

Covered(o, index) == o.cover = "all" \/ index % 2 = 0

AnsweredIndex(o, index) == IF o.idx = "same" THEN index ELSE index + 1

\* the list of dicts a provider wrote for the batch
AnswerList(o, data, start, batch_end) ==
    [j \in 1..(batch_end - start) |->
        OwnDict([data[start + j] EXCEPT !.index = AnsweredIndex(o, @),
                                        !.speaker = o.label])]

\* decompress_batch_response on pairs: the speaker of every dict of the batch
\* whose index the answer names is overwritten in place
SpeakersMapped(o, data, start, batch_end) ==
    [k \in 1..Len(data) |->
        IF k > start /\ k <= batch_end /\ Covered(o, data[k].index)
        THEN [data[k] EXCEPT !.speaker = o.label]
        ELSE data[k]]

\* transcript_data after decompress_batch_response
decompress_batch_response_data(o, data, start, batch_end) ==
    IF o.gpt = "compressed" THEN SpeakersMapped(o, data, start, batch_end)
    ELSE data

\* fill_speakers_in_batch_gpt: the accepted list, or "None"
fill_speakers_in_batch_gpt(o, data, start, batch_end) ==
    CASE o.gpt = "compressed" -> Slice(start, batch_end)
      [] o.gpt = "full"       -> AnswerList(o, data, start, batch_end)
      [] o.gpt = "unparsed"   -> Slice(start, batch_end)
      [] OTHER                -> "None"

\* fill_speakers_in_batch (Gemini): the parsed list, else the batch itself
fill_speakers_in_batch(o, data, start, batch_end) ==
    IF o.gemini = "list" THEN AnswerList(o, data, start, batch_end)
    ELSE Slice(start, batch_end)

\* fill_speakers_in_batch_gpt gave up: its retry loop ended without a list
GptReturnsNone(o) == o.gpt = "none"

\* mutation: a batch both providers gave up on is left out
FilledBatchSkippingFailed(o, data, start, batch_end) ==
    IF ~GptReturnsNone(o) THEN fill_speakers_in_batch_gpt(o, data, start, batch_end)
    ELSE IF o.gemini = "list" THEN fill_speakers_in_batch(o, data, start, batch_end)
    ELSE <<>>

\* the filled_batch of one round of the loop: Gemini is asked when the first
\* provider returned None, and never returns None itself
FilledBatch(o, data, start, batch_end) ==
    IF ~GptReturnsNone(o) THEN fill_speakers_in_batch_gpt(o, data, start, batch_end)
    ELSE fill_speakers_in_batch(o, data, start, batch_end)

\* create_compact_previous_context / filter_active_speakers call .strip() on
\* the speaker of each of the last segments: a null speaker raises
PreviousContextRaises(data, list) ==
    \E k \in 1..Len(list) :
        /\ k > Len(list) - ContextWindow
        /\ GetSpeaker(Seg(data, list[k]), "") = NoneSpeaker

\* group_consecutive_segments: the group opened by a segment
NewGroup(d) ==
    [speaker       |-> GetSpeaker(d, "Unknown"),
     text_parts    |-> <<d.text>>,
     start_time    |-> d.start,
     end_time      |-> d.end,
     segment_count |-> 1]

\* group_consecutive_segments: the loop from segment k on
RECURSIVE GroupFrom(_, _, _, _)
GroupFrom(segs, k, current_group, grouped) ==
    IF k > Len(segs) THEN Append(grouped, current_group)
    ELSE IF GetSpeaker(segs[k], "Unknown") = current_group.speaker
         THEN GroupFrom(segs, k + 1,
                        [current_group EXCEPT
                            !.text_parts = Append(@, segs[k].text),
                            !.end_time = segs[k].end,
                            !.segment_count = @ + 1],
                        grouped)
         ELSE GroupFrom(segs, k + 1, NewGroup(segs[k]),
                        Append(grouped, current_group))

\* mutation: every segment opens a group of its own
group_consecutive_segments_unmerged(segs) ==
    [k \in 1..Len(segs) |-> NewGroup(segs[k])]

group_consecutive_segments(segs) ==
    IF segs = <<>> THEN <<>>
    ELSE GroupFrom(segs, 2, NewGroup(segs[1]), <<>>)

\* ---- one diarization run ----

\* fill_speakers_with_gpt_enhanced up to its loop
DetectBoundaries ==
    /\ dpc = "transcribed"
    /\ boundaries' = detect_speaker_boundaries(transcript_data)
    /\ i' = 0
    /\ batch_num' = 1
    /\ all_filled_segments' = <<>>
    /\ dpc' = "loop"
    /\ UNCHANGED <<transcript_data, grouped_segments, batchLog>>
    /\ UNCHANGED <<qvars, svars, hvars, evars, pvars, cvars>>

\* variant: the next batch starts a whole batch before the end of this one
NextStartRewindsBatch(batch_end, n) ==
    IF batch_end < n
    THEN IF batch_end > MAX_SEGMENTS_PER_GPT_BATCH
         THEN batch_end - MAX_SEGMENTS_PER_GPT_BATCH ELSE 0
    ELSE batch_end

\* i = batch_end - BATCH_OVERLAP_SIZE if batch_end < len(transcript_data)
\*     else batch_end
NextStart(batch_end, n) ==
    IF batch_end < n THEN batch_end - BATCH_OVERLAP_SIZE ELSE batch_end

\* one round of the while loop with the providers answering as o
FillBatch(o) ==
    /\ dpc = "loop"
    /\ i < Len(transcript_data)
    /\ ~PreviousContextRaises(transcript_data, all_filled_segments)
    /\ LET n == Len(transcript_data)
           batch_end == BatchEnd(i, n, boundaries)
           filled_batch == FilledBatch(o, transcript_data, i, batch_end)
       IN  /\ transcript_data' =
                 IF GptReturnsNone(o) THEN transcript_data
                 ELSE decompress_batch_response_data(o, transcript_data, i, batch_end)
           /\ all_filled_segments' =
                 IF batch_num = 1 THEN all_filled_segments \o filled_batch
                 ELSE all_filled_segments \o SkipOverlap(filled_batch)
           /\ i' = NextStart(batch_end, n)
           /\ batchLog' = Append(batchLog, [start |-> i, end |-> batch_end, o |-> o])
    /\ batch_num' = batch_num + 1
    /\ UNCHANGED <<boundaries, grouped_segments, dpc>>
    /\ UNCHANGED <<qvars, svars, hvars, evars, pvars, cvars>>

\* the context of the next batch cannot be built: the exception leaves
\* fill_speakers_with_gpt_enhanced and run_full_pipeline
ContextRaises ==
    /\ dpc = "loop"
    /\ i < Len(transcript_data)
    /\ PreviousContextRaises(transcript_data, all_filled_segments)
    /\ dpc' = "raised"
    /\ UNCHANGED <<transcript_data, boundaries, i, batch_num, all_filled_segments,
                   grouped_segments, batchLog>>
    /\ UNCHANGED <<qvars, svars, hvars, evars, pvars, cvars>>

\* the loop ends: return all_filled_segments
ReturnFilled ==
    /\ dpc = "loop"
    /\ i >= Len(transcript_data)
    /\ dpc' = "diarized"
    /\ UNCHANGED <<transcript_data, boundaries, i, batch_num, all_filled_segments,
                   grouped_segments, batchLog>>
    /\ UNCHANGED <<qvars, svars, hvars, evars, pvars, cvars>>

\* create_speakers_table groups the labelled cues
Group ==
    /\ dpc = "diarized"
    /\ grouped_segments' =
           group_consecutive_segments(Segs(transcript_data, all_filled_segments))
    /\ dpc' = "done"
    /\ UNCHANGED <<transcript_data, boundaries, i, batch_num, all_filled_segments,
                   batchLog>>
    /\ UNCHANGED <<qvars, svars, hvars, evars, pvars, cvars>>

\* a transcript of n cues out of srt_to_json, before diarization
DiarInit ==
    /\ QueueInit
    /\ ExtractIdle
    /\ ParseIdle
    /\ ChainIdle
    /\ \E n \in CueCounts, pat \in ChangePatterns :
           transcript_data = srt_to_json(n, pat)
    /\ boundaries = {}
    /\ i = 0
    /\ batch_num = 1
    /\ all_filled_segments = <<>>
    /\ grouped_segments = <<>>
    /\ dpc = "transcribed"
    /\ batchLog = <<>>

DiarNext ==
    \/ DetectBoundaries
    \/ \E o \in Outcomes : FillBatch(o)
    \/ ContextRaises
    \/ ReturnFilled

DiarSpec == DiarInit /\ [][DiarNext]_vars

\* ---- grouping on its own: every short labelled sequence ----

GroupLabels == Labels \cup {"", "Unknown", Missing}

\* the labelled cue list of n cues whose speakers are given by f
Labelled(n, f) ==
    [k \in 1..n |->
        OwnDict([index |-> k, start |-> 6 * (k - 1), end |-> 6 * k,
                 speaker |-> f[k],
                 text |-> [cue |-> k, indicator |-> FALSE]])]

GroupInit ==
    /\ QueueInit
    /\ ExtractIdle
    /\ ParseIdle
    /\ ChainIdle
    /\ transcript_data = <<>>
    /\ boundaries = {}
    /\ i = 0
    /\ batch_num = 1
    /\ \E n \in 0..MaxGroupLen : \E f \in [1..n -> GroupLabels] :
           all_filled_segments = Labelled(n, f)
    /\ grouped_segments = <<>>
    /\ dpc = "diarized"
    /\ batchLog = <<>>

GroupNext == Group

GroupSpec == GroupInit /\ [][GroupNext]_vars

\* ---- properties of the diarization run ----

\* the labelled cue list as the caller of the diarizer sees it
Merged == Segs(transcript_data, all_filled_segments)

MergedIndices == [k \in 1..Len(Merged) |-> Merged[k].index]

InputIndices == [k \in 1..Len(transcript_data) |-> transcript_data[k].index]

\* C7: when diarization returns, the merged output holds exactly the input
\* cue indices, each once and in input order, whatever the boundaries and
\* whatever the providers answered for each batch.
CueCoverage ==
    dpc = "diarized" => MergedIndices = InputIndices

\* the answer o of a batch names cue index c and gives it o.label
Assigns(o, c) ==
    \/ o.gpt = "compressed" /\ Covered(o, c)
    \/ o.gpt = "full" /\ o.idx = "same"
    \/ o.gpt = "none" /\ o.gemini = "list" /\ o.idx = "same"

\* the cues a batch shares with the one before it
Overlapped(b) ==
    (batchLog[b].start + 1)..(batchLog[b].start + BATCH_OVERLAP_SIZE)

\* C8: every batch after the first starts BATCH_OVERLAP_SIZE cues before the
\* end of the previous batch, each overlapped cue appears exactly once in the
\* merged output, and it carries there the label the later batch assigned.
OverlapTakesLaterLabel ==
    dpc = "diarized" =>
        \A b \in 2..Len(batchLog) :
            /\ batchLog[b].start = batchLog[b - 1].end - BATCH_OVERLAP_SIZE
            /\ \A c \in Overlapped(b) :
                  /\ Cardinality({k \in 1..Len(Merged) : Merged[k].index = c}) = 1
                  /\ Assigns(batchLog[b].o, c) =>
                        \A k \in 1..Len(Merged) :
                            Merged[k].index = c =>
                                Merged[k].speaker = batchLog[b].o.label

\* both providers gave up on the batch
Exhausted(o) == o.gpt = "none" /\ o.gemini = "failed"

\* what a batch adds to the merged output: all its cues, or all but the overlap
Added(b) ==
    (batchLog[b].start + (IF b = 1 THEN 0 ELSE BATCH_OVERLAP_SIZE) + 1)
        .. batchLog[b].end

EveryCueLabelled ==
    dpc = "diarized" =>
        \A k \in 1..Len(Merged) :
            Merged[k].speaker \notin {"", NoneSpeaker, Missing}

\* the answer of a provider was taken for the batch: the first provider
\* returned a list, or Gemini did after the first provider had returned None
Accepted(o) == o.gpt # "none" \/ o.gemini = "list"

\* the answer is parsed, names exactly the cue indices of the batch and
\* gives every cue a label
PassesValidation(o) ==
    /\ o.gpt # "unparsed"
    /\ o.cover = "all"
    /\ o.idx = "same"
    /\ o.label \notin {"", NoneSpeaker}

\* C20: a provider answer is taken for a batch only if it can be parsed,
\* covers exactly the cue indices of the batch and leaves no cue of the batch
\* without a label; any other answer is a failed attempt.
AcceptedOnlyIfValid ==
    \A b \in DOMAIN batchLog :
        Accepted(batchLog[b].o) => PassesValidation(batchLog[b].o)

\* the detected boundaries fewer than BoundaryWindow cues before the cut
BeforeCut(cut) ==
    {x \in boundaries : x <= cut /\ cut - x < BoundaryWindow}

\* C23: a batch that starts at cue i and is not the last one ends at the
\* default cut i + MAX_SEGMENTS_PER_GPT_BATCH when no detected boundary lies
\* fewer than 10 cues before that cut, and otherwise at the boundary of that
\* window that is nearest to the default cut.
CutAtNearestBoundary ==
    \A b \in DOMAIN batchLog :
        LET cut == batchLog[b].start + MAX_SEGMENTS_PER_GPT_BATCH
        IN  cut < Len(transcript_data) =>
                batchLog[b].end =
                    IF BeforeCut(cut) = {} THEN cut
                    ELSE CHOOSE x \in BeforeCut(cut) :
                             \A y \in BeforeCut(cut) : y <= x

\* ---- properties of the grouping ----

\* the label group_consecutive_segments reads from cue k of its input
InputLabel(k) == GetSpeaker(Merged[k], "Unknown")

\* the cue numbers whose text a turn collected
TurnCues(t) == [j \in 1..Len(t.text_parts) |-> t.text_parts[j].cue]

RECURSIVE SumSegmentCounts(_, _)
SumSegmentCounts(g, k) ==
    IF k > Len(g) THEN 0 ELSE g[k].segment_count + SumSegmentCounts(g, k + 1)

\* the sequence lo, lo + 1, ..., hi
Run(lo, hi) == [j \in 1..(hi - lo + 1) |-> lo + j - 1]

\* C29: the batching loop terminates: every round moves the start index
\* strictly forward and never past the end of the transcript, each batch
\* starts after the one before, every batch after the first holds more cues
\* than the overlap, and every round adds at least one cue to the merged
\* output.
BatchesAdvance ==
    /\ [](\A b \in DOMAIN batchLog :
             /\ batchLog[b].start < batchLog[b].end
             /\ batchLog[b].end <= Len(transcript_data)
             /\ b > 1 =>
                  /\ batchLog[b].start > batchLog[b - 1].start
                  /\ batchLog[b].end - batchLog[b].start > BATCH_OVERLAP_SIZE)
    /\ [][batchLog' # batchLog =>
             /\ i' > i
             /\ i' <= Len(transcript_data)
             /\ Len(all_filled_segments') > Len(all_filled_segments)]_vars

\* a transcript cut into two batches, the first one ending at a boundary
WitnessSecondBatchAfterSnap ==
    /\ dpc = "diarized"
    /\ Len(batchLog) = 2
    /\ batchLog[1].end \in boundaries
    /\ batchLog[1].end < MAX_SEGMENTS_PER_GPT_BATCH
    /\ batchLog[2].start = batchLog[1].end - BATCH_OVERLAP_SIZE

\* C10: group_consecutive_segments cuts the labelled cues into maximal runs
\* of one label: each turn is a contiguous run of cues that all carry the
\* turn's label, the turns follow each other without gap from the first cue
\* to the last, neighbouring turns differ in label, the segment counts add up
\* to the number of cues, A,A,B,B,B gives the two turns of cues 1-2 and 3-5,
\* and an empty input gives no turn.
MaximalRuns ==
    dpc = "done" =>
        LET g == grouped_segments
            n == Len(Merged)
        IN  /\ n = 0 => g = <<>>
            /\ n > 0 => /\ Len(g) > 0
                        /\ TurnCues(g[1])[1] = 1
                        /\ TurnCues(g[Len(g)])[g[Len(g)].segment_count] = n
            /\ \A t \in 1..Len(g) :
                  /\ g[t].segment_count = Len(g[t].text_parts)
                  /\ g[t].segment_count >= 1
                  /\ TurnCues(g[t]) =
                        Run(TurnCues(g[t])[1],
                            TurnCues(g[t])[1] + g[t].segment_count - 1)
                  /\ \A j \in 1..Len(g[t].text_parts) :
                        InputLabel(TurnCues(g[t])[j]) = g[t].speaker
            /\ \A t \in 1..(Len(g) - 1) :
                  /\ g[t].speaker # g[t + 1].speaker
                  /\ TurnCues(g[t + 1])[1] =
                        TurnCues(g[t])[g[t].segment_count] + 1
            /\ SumSegmentCounts(g, 1) = n
            /\ [k \in 1..n |-> InputLabel(k)] = <<"A", "A", "B", "B", "B">> =>
                  /\ Len(g) = 2
                  /\ TurnCues(g[1]) = <<1, 2>>
                  /\ TurnCues(g[2]) = <<3, 4, 5>>

\* the cues labelled A,A,B,B,B have been grouped into two turns
WitnessTwoTurns ==
    /\ dpc = "done"
    /\ [k \in 1..Len(Merged) |-> InputLabel(k)] = <<"A", "A", "B", "B", "B">>
    /\ Len(grouped_segments) = 2
    /\ grouped_segments[1].speaker = "A"
    /\ grouped_segments[2].speaker = "B"

\* ======================================================================
\* Part III: resolving a speaker label (parse_speaker_info)
\* ======================================================================
\* A label is the sequence of its whitespace-separated tokens; punctuation
\* stands as a token of its own ("Jane ( Kenya )").  Names and representing
\* fields are token sequences as well.

MaxLabelLen == 4

Separators == {"(", ")", "-", ",", ":"}

\* letters only, two letters or more
Words ==
    {"Jane", "Smith", "Kenya", "Ministry", "Minister", "Moderator",
     "Communications", "of", "the", "Dr"}

\* the tokens of the labels that are enumerated up to MaxLabelLen
Tokens ==
    Separators \cup {"Jane", "Kenya", "Ministry", "Minister", "Moderator", "of"}

\* 'Dr. Jane Smith, Minister of Communications, Kenya'
DrJaneSmith ==
    <<"Dr.", "Jane", "Smith", ",", "Minister", "of", "Communications", ",",
      "Kenya">>

\* every label of up to MaxLabelLen tokens, and the scenario label
RawLabels ==
    UNION {[1..n -> Tokens] : n \in 0..MaxLabelLen} \cup {DrJaneSmith}

\* number of characters of a token
TokLen(t) ==
    CASE t \in Separators -> 1
      [] t \in {"of", "Dr"} -> 2
      [] t \in {"Dr.", "the"} -> 3
      [] t = "Jane" -> 4
      [] t \in {"Smith", "Kenya"} -> 5
      [] t \in {"Ministry", "Minister"} -> 8
      [] t = "Moderator" -> 9
      [] t = "Communications" -> 14

RECURSIVE Chars(_)
\* len() of the string a token sequence stands for
Chars(s) ==
    IF s = <<>> THEN 0
    ELSE TokLen(Head(s)) + (IF Len(s) > 1 THEN 1 ELSE 0) + Chars(Tail(s))

\* words[k][0].isupper()
IsCapital(t) == t \in (Words \cup {"Dr."}) \ {"of", "the"}

\* <<t, x>>: x.lower() in t.lower(), for the indicators and keywords of
\* parse_speaker_info that occur in some token
Occurs ==
    {<<"Kenya", "Kenya">>, <<"Ministry", "Ministry">>,
     <<"Communications", "UN">>, <<"Minister", "Minister">>,
     <<"Moderator", "Moderator">>, <<"Minister", "minister">>,
     <<"Moderator", "moderator">>, <<"Communications", "un">>,
     <<"Ministry", "ministry">>}

\* x.lower() in s.lower()
In(x, s) == \E k \in DOMAIN s : <<s[k], x>> \in Occurs

\* the indicators of each list that occur in some token, in the list's order
country_indicators == <<"Kenya">>

org_indicators == <<"UN", "Ministry">>

title_indicators == <<"Minister", "Moderator">>

special_cases ==
    <<[role |-> "moderator", representing |-> <<"Event", "Moderator">>]>>

Range(s) == {s[k] : k \in DOMAIN s}

\* any(indicator.lower() in s.lower() for indicator in <list>)
AnyIn(list, s) == \E x \in Range(list) : In(x, s)

HasIndicator(s) == AnyIn(org_indicators, s) \/ AnyIn(country_indicators, s)

Before(l, k) == SubSeq(l, 1, k - 1)

After(l, k) == SubSeq(l, k + 1, Len(l))

\* a pattern that does not apply
NoMatch == <<>>

NotSpecified == <<"Not", "specified">>

\* positions where a regex "^(.+?)\s*<tok>\s*(.+)$" can split the label:
\* something before the token and something after it
SplitAt(l, toks) == {k \in 2..(Len(l) - 1) : l[k] \in toks}

\* Pattern 1: ^(.+?)\s*\((.+?)\)$
paren_match(l) ==
    IF l # <<>> /\ l[Len(l)] = ")" /\ SplitAt(l, {"("}) # {}
    THEN LET k == Min(SplitAt(l, {"("}))
         IN  <<Before(l, k), SubSeq(l, k + 1, Len(l) - 1)>>
    ELSE NoMatch

\* Pattern 2: ^(.+?)\s*[-]\s*(.+)$
dash_match(l) ==
    IF SplitAt(l, {"-"}) # {}
    THEN LET k == Min(SplitAt(l, {"-"}))
         IN  <<Before(l, k), After(l, k)>>
    ELSE NoMatch

\* Pattern 3: the label up to its first comma, and the rest if the rest
\* holds an organization or country indicator
comma_parts(l) ==
    LET commas == {k \in DOMAIN l : l[k] = ","}
    IN  IF commas # {} /\ HasIndicator(After(l, Min(commas)))
        THEN <<Before(l, Min(commas)), After(l, Min(commas))>>
        ELSE NoMatch

\* Pattern 4: ^(.+?):\s*(.+)$, the part after the colon is the name
colon_match(l) ==
    IF SplitAt(l, {":"}) # {}
    THEN LET k == Min(SplitAt(l, {":"}))
         IN  <<After(l, k), Before(l, k)>>
    ELSE NoMatch

RECURSIVE WordRun(_, _)
\* [A-Z][a-z]+(?:\s+[A-Z][a-z]+)* under IGNORECASE, from token j on
WordRun(l, j) ==
    IF j > Len(l) THEN <<>>
    ELSE IF l[j] \in Words THEN <<l[j]>> \o WordRun(l, j + 1)
    ELSE IF l[j] = "Dr." THEN <<"Dr">>
    ELSE <<>>

\* group(1) of the three title_patterns for a title, NoMatch where the
\* pattern finds nothing
title_patterns(title, l) ==
    LET a == {k \in 1..(Len(l) - 2) :
                 l[k] = title /\ l[k + 1] \in {"of", "for", "from"}}
        b == {k \in 2..Len(l) : l[k] = title}
        c == {j \in DOMAIN l :
                 /\ \E k \in 1..(j - 1) : l[k] = title
                 /\ l[j] \in Words \cup {"Dr."}}
    IN  << IF a = {} THEN NoMatch ELSE <<l[Min(a) + 2]>>,
           IF b = {} THEN NoMatch ELSE Before(l, Min(b)),
           IF c = {} THEN NoMatch ELSE WordRun(l, Min(c)) >>

\* Pattern 5: the first title in the label, and for it the first pattern,
\* whose extract is longer than two characters and holds an indicator
title_match(l) ==
    LET Qualifies(t, p) ==
            LET org_extract == title_patterns(title_indicators[t], l)[p]
            IN  /\ In(title_indicators[t], l)
                /\ org_extract # NoMatch
                /\ Chars(org_extract) > 2
                /\ HasIndicator(org_extract)
        ts == {t \in DOMAIN title_indicators : \E p \in 1..3 : Qualifies(t, p)}
    IN  IF ts = {} THEN NoMatch
        ELSE LET t == Min(ts)
                 p == Min({q \in 1..3 : Qualifies(t, q)})
             IN  <<l, title_patterns(title_indicators[t], l)[p]>>

\* Pattern 6: the first country of the list that the label holds
country_match(l) ==
    LET cs == {c \in DOMAIN country_indicators : In(country_indicators[c], l)}
    IN  IF cs = {} THEN NoMatch
        ELSE IF In("minister", l)
             THEN <<l, <<country_indicators[Min(cs)], "Government">>>>
             ELSE <<l, <<country_indicators[Min(cs)]>>>>

\* Pattern 7: the first organization of the list that the label holds
org_match(l) ==
    LET os == {o \in DOMAIN org_indicators : In(org_indicators[o], l)}
    IN  IF os = {} THEN NoMatch
        ELSE IF In("un", l) THEN <<l, <<"United", "Nations">>>>
        ELSE <<l, <<org_indicators[Min(os)]>>>>

\* Pattern 8: a role label
role_match(l) ==
    LET rs == {r \in DOMAIN special_cases : In(special_cases[r].role, l)}
    IN  IF rs = {} THEN NoMatch
        ELSE <<l, special_cases[Min(rs)].representing>>

\* Pattern 9: ^(.+?)\s+of\s+(.+)$
of_match(l) ==
    IF SplitAt(l, {"of"}) # {}
    THEN LET k == Min(SplitAt(l, {"of"}))
             org_part == After(l, k)
         IN  <<Before(l, k),
               IF Len(org_part) > 1 /\ org_part[1] = "the"
               THEN Tail(org_part) ELSE org_part>>
    ELSE NoMatch

\* Pattern 10: the whole label is an organization
org_only(l) ==
    IF AnyIn(org_indicators, l) /\ In("ministry", l) THEN <<l, l>> ELSE NoMatch

\* Pattern 11: First Last
name_pattern(l) ==
    IF /\ Len(l) >= 2
       /\ IsCapital(l[1]) /\ IsCapital(l[2])
       /\ TokLen(l[1]) > 1 /\ TokLen(l[2]) > 1
       /\ ~AnyIn(org_indicators, l)
    THEN <<l, NotSpecified>>
    ELSE NoMatch

\* the default: the label, cut before " (" if it holds one
clean_name(l) ==
    LET ds == SplitAt(l, {"-"})
        ps == {k \in 2..Len(l) : l[k] = "("}
    IN  IF Cardinality(ds) = 1
        THEN IF Chars(Before(l, Min(ds))) < Chars(After(l, Min(ds)))
             THEN Before(l, Min(ds)) ELSE After(l, Min(ds))
        ELSE IF ps # {} THEN Before(l, Min(ps))
        ELSE l

parse_speaker_info_comma_first(l) ==
    IF l = <<>> THEN <<<<"Unknown", "Speaker">>, <<"Unknown">>>>
    ELSE IF comma_parts(l) # NoMatch THEN comma_parts(l)
    ELSE IF paren_match(l) # NoMatch THEN paren_match(l)
    ELSE IF dash_match(l) # NoMatch THEN dash_match(l)
    ELSE IF colon_match(l) # NoMatch THEN colon_match(l)
    ELSE IF title_match(l) # NoMatch THEN title_match(l)
    ELSE IF country_match(l) # NoMatch THEN country_match(l)
    ELSE IF org_match(l) # NoMatch THEN org_match(l)
    ELSE IF role_match(l) # NoMatch THEN role_match(l)
    ELSE IF of_match(l) # NoMatch THEN of_match(l)
    ELSE IF org_only(l) # NoMatch THEN org_only(l)
    ELSE IF name_pattern(l) # NoMatch THEN name_pattern(l)
    ELSE <<clean_name(l), NotSpecified>>

parse_speaker_info(l) ==
    IF l = <<>> THEN <<<<"Unknown", "Speaker">>, <<"Unknown">>>>
    ELSE IF paren_match(l) # NoMatch THEN paren_match(l)
    ELSE IF dash_match(l) # NoMatch THEN dash_match(l)
    ELSE IF comma_parts(l) # NoMatch THEN comma_parts(l)
    ELSE IF colon_match(l) # NoMatch THEN colon_match(l)
    ELSE IF title_match(l) # NoMatch THEN title_match(l)
    ELSE IF country_match(l) # NoMatch THEN country_match(l)
    ELSE IF org_match(l) # NoMatch THEN org_match(l)
    ELSE IF role_match(l) # NoMatch THEN role_match(l)
    ELSE IF of_match(l) # NoMatch THEN of_match(l)
    ELSE IF org_only(l) # NoMatch THEN org_only(l)
    ELSE IF name_pattern(l) # NoMatch THEN name_pattern(l)
    ELSE <<clean_name(l), NotSpecified>>

\* create_speakers_table resolves the label of a turn
ParseSpeaker ==
    /\ parsed = <<>>
    /\ parsed' = parse_speaker_info(speaker_name)
    /\ UNCHANGED <<speaker_name, qvars, svars, hvars, evars, dvars, cvars>>

ParseInit ==
    /\ QueueInit
    /\ ExtractIdle
    /\ DiarIdle
    /\ ChainIdle
    /\ speaker_name \in RawLabels
    /\ parsed = <<>>

ParseNext == ParseSpeaker

ParseSpec == ParseInit /\ [][ParseNext]_vars

\* ---- properties of the label resolution ----

\* what each pattern gives for the label, in the order paren suffix, dash
\* suffix, comma clause, colon prefix, title, country, organization, role
PatternsInOrder(l) ==
    <<paren_match(l), dash_match(l), comma_parts(l), colon_match(l),
      title_match(l), country_match(l), org_match(l), role_match(l)>>

\* C18: parse_speaker_info returns for a label the result of the first
\* pattern that matches it, in the fixed order paren suffix, dash suffix, comma
\* clause with a known keyword, colon prefix, title, country, organization,
\* role, and only then the remaining patterns; the result is a function of the
\* label alone.  A label without parenthesis and dash whose tail after the
\* first comma holds a country or organization keyword gives (first comma
\* part, rest), and 'Dr. Jane Smith, Minister of Communications, Kenya' gives
\* the name 'Dr. Jane Smith' and a representing field that holds 'Kenya'.
FirstMatchWins ==
    parsed # <<>> =>
        LET l == speaker_name
            ms == {k \in 1..8 : PatternsInOrder(l)[k] # NoMatch}
            commas == {k \in DOMAIN l : l[k] = ","}
        IN  /\ parsed = parse_speaker_info(l)
            /\ l # <<>> /\ ms # {} => parsed = PatternsInOrder(l)[Min(ms)]
            /\ l # <<>> /\ ms = {} =>
                  parsed \in {of_match(l), name_pattern(l),
                              <<clean_name(l), NotSpecified>>} \ {NoMatch}
            /\ (/\ Range(l) \cap {"(", ")", "-"} = {}
                /\ commas # {}
                /\ HasIndicator(After(l, Min(commas))))
                  => parsed = <<Before(l, Min(commas)),
                                After(l, Min(commas))>>
            /\ l = DrJaneSmith =>
                  /\ parsed[1] = <<"Dr.", "Jane", "Smith">>
                  /\ "Kenya" \in Range(parsed[2])

\* the scenario label has been resolved by its comma clause, although it
\* also holds a title and a country
WitnessCommaClauseBeforeTitle ==
    /\ speaker_name = DrJaneSmith
    /\ title_match(speaker_name) # NoMatch
    /\ country_match(speaker_name) # NoMatch
    /\ parsed = <<<<"Dr.", "Jane", "Smith">>,
                  <<"Minister", "of", "Communications", ",", "Kenya">>>>

\* ======================================================================
\* Part IV: the provider calls made for one batch
\* ======================================================================
\* fill_speakers_in_batch_gpt with its retry loop, then the Gemini fallback
\* (fill_speakers_in_batch with call_gemini_with_retry), one attempt per step.

MAX_RETRIES == 3

BASE_DELAY == 1

MAX_DELAY == 60

RateLimitBaseDelay == 30

RateLimitStepDelay == 10

RetryAfterBuffer == 2

\* integer Retry-After values up to this bound are enumerated
MaxRetryAfter == 1

Providers == {"azure", "ollama", "gemini"}

\* the values a Retry-After header may carry, and the values just below and
\* at the cap
RetryAfters ==
    (-(RetryAfterBuffer + 1))..MaxRetryAfter
        \cup {MAX_DELAY - RetryAfterBuffer, MAX_DELAY}

\* what one chat completion call of the first provider can come to: a list
\* of the batch's length, an answer that is not parsed (the original batch is
\* taken), a list of another length, an API error, or a rate-limit error
\* with or without a Retry-After value (retry_after holds the value, if any)
GptResponses ==
    [kind : {"filled", "unparsed", "mismatch", "error"}, retry_after : {{}}]
        \cup [kind : {"rate_limit"},
              retry_after : {{}} \cup {{v} : v \in RetryAfters}]

\* what one generate_content call can come to
GeminiResponses == {"filled", "unparsed", "mismatch", "error"}

\* random.uniform(0, 1), to the second
Jitter == {0, 1}

\* the wait before the retry that follows an ordinary failed attempt
Backoff(k) == Min({BASE_DELAY * (2 ^ k), MAX_DELAY})

\* the wait before the retry that follows a rate-limit error
RateLimitDelay(k, ra) ==
    LET retry_after == {Min({v + RetryAfterBuffer, MAX_DELAY}) : v \in ra}
    IN  IF retry_after \ {0} # {} THEN Min(retry_after)
        ELSE Min({RateLimitBaseDelay + k * RateLimitStepDelay, MAX_DELAY})

\* the batch is handed to fill_speakers_in_batch_gpt, which sets up Azure
\* OpenAI, else Ollama, else returns None at once
SelectProvider ==
    /\ cpc = "start"
    /\ attempt' = 0
    /\ IF "azure" \in configured
       THEN provider' = "azure" /\ cpc' = "gpt"
       ELSE IF "ollama" \in configured
            THEN provider' = "ollama" /\ cpc' = "gpt"
            ELSE provider' = "none" /\ cpc' = "gpt_none"
    /\ UNCHANGED <<configured, calls, slept, filled_data, qvars, svars, hvars, evars, dvars, pvars>>

\* one round of the retry loop of fill_speakers_in_batch_gpt
GptAttempt(r) ==
    /\ cpc = "gpt"
    /\ attempt < MAX_RETRIES
    /\ calls' = Append(calls, [provider |-> provider, attempt |-> attempt,
                               response |-> r.kind,
                               retry_after |-> r.retry_after])
    /\ CASE r.kind \in {"filled", "unparsed"} ->
              /\ filled_data' = r.kind
              /\ cpc' = "returned"
              /\ UNCHANGED <<attempt, slept>>
         [] r.kind \in {"mismatch", "error"} ->
              /\ slept' = IF attempt < MAX_RETRIES - 1
                          THEN Append(slept, Backoff(attempt)) ELSE slept
              /\ attempt' = attempt + 1
              /\ cpc' = IF attempt + 1 < MAX_RETRIES THEN "gpt" ELSE "gpt_none"
              /\ UNCHANGED filled_data
         [] r.kind = "rate_limit" ->
              LET delay == RateLimitDelay(attempt, r.retry_after)
              IN  IF attempt < MAX_RETRIES - 1
                  THEN IF delay < 0
                       THEN /\ cpc' = "raised"
                            /\ UNCHANGED <<attempt, slept, filled_data>>
                       ELSE /\ slept' = Append(slept, delay)
                            /\ attempt' = attempt + 1
                            /\ cpc' = "gpt"
                            /\ UNCHANGED filled_data
                  ELSE /\ cpc' = "gpt_none"
                       /\ UNCHANGED <<attempt, slept, filled_data>>
    /\ UNCHANGED <<configured, provider, qvars, svars, hvars, evars, dvars, pvars>>

\* fill_speakers_in_batch_gpt returned None: the caller hands the batch to
\* fill_speakers_in_batch, which returns the batch as it is when Gemini
\* cannot be set up
GeminiFallback ==
    /\ cpc = "gpt_none"
    /\ attempt' = 0
    /\ IF "gemini" \in configured
       THEN /\ provider' = "gemini"
            /\ cpc' = "gemini"
            /\ UNCHANGED filled_data
       ELSE /\ filled_data' = "original"
            /\ cpc' = "returned"
            /\ UNCHANGED provider
    /\ UNCHANGED <<configured, calls, slept, qvars, svars, hvars, evars, dvars, pvars>>

\* one round of call_gemini_with_retry; a response ends the loop and is
\* parsed and counted by fill_speakers_in_batch, which returns the batch as
\* it is when the response does not pass
GeminiAttempt(r, jitter) ==
    /\ cpc = "gemini"
    /\ attempt < MAX_RETRIES
    /\ calls' = Append(calls, [provider |-> provider, attempt |-> attempt,
                               response |-> r, retry_after |-> {}])
    /\ IF r = "error"
       THEN IF attempt = MAX_RETRIES - 1
            THEN /\ filled_data' = "original"
                 /\ cpc' = "returned"
                 /\ UNCHANGED <<attempt, slept>>
            ELSE /\ slept' = Append(slept,
                        Min({BASE_DELAY * (2 ^ attempt) + jitter, MAX_DELAY}))
                 /\ attempt' = attempt + 1
                 /\ UNCHANGED <<cpc, filled_data>>
       ELSE /\ filled_data' = IF r = "filled" THEN "filled" ELSE "original"
            /\ cpc' = "returned"
            /\ UNCHANGED <<attempt, slept>>
    /\ UNCHANGED <<configured, provider, qvars, svars, hvars, evars, dvars, pvars>>

ChainInit ==
    /\ QueueInit
    /\ ExtractIdle
    /\ DiarIdle
    /\ ParseIdle
    /\ configured \in SUBSET Providers
    /\ provider = "none"
    /\ attempt = 0
    /\ calls = <<>>
    /\ slept = <<>>
    /\ cpc = "start"
    /\ filled_data = "None"

ChainNext ==
    \/ SelectProvider
    \/ \E r \in GptResponses : GptAttempt(r)
    \/ GeminiFallback
    \/ \E r \in GeminiResponses, jitter \in Jitter : GeminiAttempt(r, jitter)

ChainSpec == ChainInit /\ [][ChainNext]_vars

\* ---- properties of the provider calls ----

\* the order of the provider chain
ChainOrder == <<"azure", "ollama", "gemini">>

Rank(p) == CHOOSE k \in DOMAIN ChainOrder : ChainOrder[k] = p

\* the calls made to provider p among the first n calls
CallsTo(p, n) == {k \in 1..n : calls[k].provider = p}

\* a response that does not pass validation
FailsValidation(c) == c.response \in {"unparsed", "mismatch"}

\* C19: a provider whose response fails validation is called again while it
\* has attempts left; a provider is called only after every configured
\* provider before it in the order primary, secondary, tertiary has used up
\* its MAX_RETRIES attempts; and a batch is given up only after every
\* configured provider has been called.
ChainFollowsBudget ==
    /\ \A k \in DOMAIN calls :
          /\ FailsValidation(calls[k]) /\ calls[k].attempt < MAX_RETRIES - 1 =>
                IF k < Len(calls)
                THEN calls[k + 1].provider = calls[k].provider
                ELSE cpc \notin {"returned", "gpt_none"}
          /\ \A q \in configured :
                Rank(q) < Rank(calls[k].provider) =>
                    Cardinality(CallsTo(q, k - 1)) = MAX_RETRIES
    /\ cpc = "returned" /\ filled_data = "original" =>
          \A q \in configured : CallsTo(q, Len(calls)) # {}

\* the calls a retry loop made up to now, or in all if it has ended
GptCalls == {k \in DOMAIN calls : calls[k].provider \in {"azure", "ollama"}}

GeminiCalls == {k \in DOMAIN calls : calls[k].provider = "gemini"}

\* the call ended its retry loop with a result: a batch for
\* fill_speakers_in_batch_gpt, a response for call_gemini_with_retry
Succeeded(c) ==
    IF c.provider = "gemini" THEN c.response # "error"
    ELSE c.response \in {"filled", "unparsed"}

\* C21: fill_speakers_in_batch_gpt and call_gemini_with_retry each make at
\* most MAX_RETRIES attempts, none after the first one that succeeded, and
\* when all attempts failed, rate-limit errors included, they return None to
\* the caller: an exception never leaves the retry loop.
BoundedAttemptsNoRaise ==
    /\ Cardinality(GptCalls) <= MAX_RETRIES
    /\ Cardinality(GeminiCalls) <= MAX_RETRIES
    /\ \A k \in DOMAIN calls :
          Succeeded(calls[k]) => k = Len(calls) /\ cpc = "returned"
    /\ cpc # "raised"
    /\ \A k \in DOMAIN calls :
          ~Succeeded(calls[k]) /\ calls[k].attempt = MAX_RETRIES - 1 =>
              IF calls[k].provider = "gemini"
              THEN cpc = "returned" /\ filled_data = "original"
              ELSE k < Len(calls) \/ cpc \in {"gpt_none", "gemini", "returned"}

\* the calls that failed with attempts left, in the order they were made:
\* each is followed by a wait and a retry
RetriedCalls ==
    {k \in DOMAIN calls :
        ~Succeeded(calls[k]) /\ calls[k].attempt < MAX_RETRIES - 1}

\* the wait slept after call k, the j-th retried call
WaitAfter(k) == slept[Cardinality({j \in RetriedCalls : j <= k})]

\* C22: the wait slept after failed attempt k is min(BASE_DELAY * 2^k,
\* MAX_DELAY) for an ordinary failure and the server's Retry-After value
\* plus 2 s, capped at MAX_DELAY, for a rate-limit failure that carries one;
\* every wait is at least 0 and at most MAX_DELAY, whatever integer the
\* Retry-After header holds.
WaitsFollowBackoff ==
    /\ cpc # "raised"
    /\ Len(slept) = Cardinality(RetriedCalls)
    /\ \A j \in DOMAIN slept : slept[j] >= 0 /\ slept[j] <= MAX_DELAY
    /\ \A k \in RetriedCalls :
          /\ calls[k].response # "rate_limit" =>
                WaitAfter(k) = Min({BASE_DELAY * (2 ^ calls[k].attempt),
                                    MAX_DELAY})
          /\ \A v \in calls[k].retry_after :
                WaitAfter(k) = Min({v + RetryAfterBuffer, MAX_DELAY})


(***************************************************************************)
(* Part V: the speaker roster of a job (app/pipeline.py)                   *)
(***************************************************************************)
\* the longest list of mentions in an answer of pass 1
MaxMentions == 2

\* get_azure_openai_config() gives a config; the client that can be set up
\* (setup_azure_openai_client, else setup_ollama_client); a Gemini key is set
AiConfigs ==
    [azure : BOOLEAN, client : {"Azure GPT-4", "Ollama", "none"}, gemini : BOOLEAN]

\* an element of "speaker_mentions" in the JSON of pass 1: an object whose
\* "context" is a string, null or absent, or a bare string
MentionItems ==
    [kind : {"object"}, context : {"text", "null", "absent"}]
        \cup {[kind |-> "string", context |-> "absent"]}

\* what the model answers in pass 1: the call raises, the text is no JSON, the
\* JSON is no object, "speaker_mentions" is null, or it is a list
Pass1Answers ==
    [kind : {"error", "unparsed", "array", "null_list"}, speaker_mentions : {<<>>}]
        \cup [kind : {"object"},
              speaker_mentions : UNION {[1..n -> MentionItems] : n \in 0..MaxMentions}]

Rosters == {<<>>, <<"Dr. Smith">>}

\* what the model answers in pass 2, and Gemini in extract_speaker_info_from_txt
ProfileAnswers ==
    [kind : {"error", "unparsed", "array", "null_list"}, speakers : {<<>>}]
        \cup [kind : {"object"}, speakers : Rosters]

NoMentions == [kind |-> "None", speaker_mentions |-> <<>>]
NoRoster == [kind |-> "None", speakers |-> <<>>]
RosterOf(speakers) == [kind |-> "dict", speakers |-> speakers]

\* lines 354-399 / 474-531: the statements inside the try raise (the call,
\* json.loads, .get on a non-dict, len(None))
AnswerRaises(r) == r.kind # "object"

\* compress_speaker_mentions: mention.get on a string, None[:200] on a null context
CompressRaises(sm) ==
    \E k \in DOMAIN sm.speaker_mentions :
        \/ sm.speaker_mentions[k].kind = "string"
        \/ sm.speaker_mentions[k].context = "null"

\* extract_speaker_relevant_sections: m.get on a string
SectionsRaise(sm) ==
    \E k \in DOMAIN sm.speaker_mentions : sm.speaker_mentions[k].kind = "string"

\* run_full_pipeline 2479-2483 and extract_speaker_info_with_gpt 270-282
BeginExtraction ==
    /\ epc = "start"
    /\ epc' = IF ai_config.azure /\ ai_config.client # "none"
              THEN "pass1" ELSE "fallback"
    /\ UNCHANGED <<ai_config, speaker_mentions, speaker_info, failed_pass>>
    /\ UNCHANGED <<qvars, svars, hvars, dvars, pvars, cvars>>

\* lines 354-399
Pass1(r) ==
    /\ epc = "pass1"
    /\ IF AnswerRaises(r)
       THEN /\ failed_pass' = failed_pass \cup {1}
            /\ epc' = "fallback"
            /\ UNCHANGED speaker_mentions
       ELSE /\ speaker_mentions' = r
            /\ epc' = "prompt2"
            /\ UNCHANGED failed_pass
    /\ UNCHANGED <<ai_config, speaker_info>>
    /\ UNCHANGED <<qvars, svars, hvars, dvars, pvars, cvars>>

\* lines 403-472: the f-string of pass 2 is built outside any try; an
\* exception leaves extract_speaker_info_with_gpt and, re-raised at line
\* 2564, run_full_pipeline
BuildPrompt2 ==
    /\ epc = "prompt2"
    /\ epc' = IF CompressRaises(speaker_mentions) \/ SectionsRaise(speaker_mentions)
              THEN "raised" ELSE "pass2"
    /\ UNCHANGED <<ai_config, speaker_mentions, speaker_info, failed_pass>>
    /\ UNCHANGED <<qvars, svars, hvars, dvars, pvars, cvars>>

\* lines 474-531
Pass2(r) ==
    /\ epc = "pass2"
    /\ IF AnswerRaises(r)
       THEN /\ failed_pass' = failed_pass \cup {2}
            /\ epc' = "fallback"
            /\ UNCHANGED speaker_info
       ELSE /\ speaker_info' = RosterOf(r.speakers)
            /\ epc' = "diarize"
            /\ UNCHANGED failed_pass
    /\ UNCHANGED <<ai_config, speaker_mentions>>
    /\ UNCHANGED <<qvars, svars, hvars, dvars, pvars, cvars>>

\* lines 2485-2486 and extract_speaker_info_from_txt: speaker_info is None,
\* the roster is what Gemini gives, {"speakers": []} without a key or on error
GeminiRoster(r) ==
    /\ epc = "fallback"
    /\ speaker_info' = IF ai_config.gemini /\ ~AnswerRaises(r)
                       THEN RosterOf(r.speakers) ELSE RosterOf(<<>>)
    /\ epc' = "diarize"
    /\ UNCHANGED <<ai_config, speaker_mentions, failed_pass>>
    /\ UNCHANGED <<qvars, svars, hvars, dvars, pvars, cvars>>

ExtractInit ==
    /\ QueueInit
    /\ DiarIdle
    /\ ParseIdle
    /\ ChainIdle
    /\ ai_config \in AiConfigs
    /\ speaker_mentions = NoMentions
    /\ speaker_info = NoRoster
    /\ failed_pass = {}
    /\ epc = "start"

ExtractNext ==
    \/ BeginExtraction
    \/ \E r \in Pass1Answers : Pass1(r)
    \/ BuildPrompt2
    \/ \E r \in ProfileAnswers : Pass2(r)
    \/ \E r \in ProfileAnswers : GeminiRoster(r)

ExtractSpec == ExtractInit /\ [][ExtractNext]_vars

(***************************************************************************)
(* Properties of the roster                                                *)
(***************************************************************************)
\* C25: when pass 1 or pass 2 of the speaker-profile extraction fails, the
\* roster handed to diarization is empty and the job goes on to diarization;
\* the extraction never raises out of the pipeline.
FailedExtractionGivesEmptyRoster ==
    /\ epc # "raised"
    /\ epc = "diarize" /\ failed_pass # {} => speaker_info.speakers = <<>>

====
